---- MODULE Spec2Model ----
(***************************************************************************)
(* A model of hlsclt: the configuration schema and its driver              *)
(* (hlsclt/helper_funcs.py), the parser combinators the schema is built    *)
(* from (hlsclt/config.py, described in spec.md sections 4.1 and 4.2), the *)
(* solution numbering (find_solution_num) and the chained build            *)
(* subcommands (hlsclt/build_commands/build_commands.py).                  *)
(***************************************************************************)
EXTENDS Integers, Sequences, FiniteSets, TLC

VARIABLES
    pc,         \* position of the running command / scenario
    doc,        \* the decoded Raw Document handed to the schema
    cwd,        \* the current working directory, a sequence of segments
    result,     \* what the last parse / load_config produced
    first,      \* the Configuration of the first successful parse
    cparser,    \* combinator scenario: the parser under test
    cvalue,     \* combinator scenario: the raw value under test
    cpath,      \* combinator scenario: the path the parser is applied at
    cresult,    \* combinator scenario: the parser's result
    nsol,       \* find_solution_num: existing solution directories
    keep,       \* find_solution_num: ctx.params["keep"], or "missing"
    solution_num,          \* find_solution_num: the number returned (0: not run)
    src_files,             \* build: number of source files of the configuration
    tb_files,              \* build: number of testbench files
    report,                \* build: the --report flag
    syn_result,            \* build: a synthesis report exists on disk
    syn_command_present,   \* build: ctx.obj.syn_command_present
    script,                \* build: ctx.obj.script, the Tcl commands so far
    sub_command_returns,   \* build: what the subcommands run so far returned
    checks,                \* build: history of the syn_lookahead_check calls
    outcome,               \* build: how build_end_callback ended
    handed,                \* build: the script vivado_hls was started on
    returncode,            \* build: the return code of vivado_hls
    end_build,             \* build: what do_end_build_stuff did
    confirmed_all          \* build: no prompt was declined so far

cfgvars  == <<doc, cwd, result, first>>
combvars == <<cparser, cvalue, cpath, cresult>>
solvars  == <<nsol, keep, solution_num>>
buildvars == <<src_files, tb_files, report, syn_result, syn_command_present, script,
               sub_command_returns, checks, outcome, handed, returncode, end_build,
               confirmed_all>>
vars     == <<pc, doc, cwd, result, first, cparser, cvalue, cpath, cresult,
              nsol, keep, solution_num,
              src_files, tb_files, report, syn_result, syn_command_present, script,
              sub_command_returns, checks, outcome, handed, returncode, end_build,
              confirmed_all>>

(***************************************************************************)
(* Bounds of the model.                                                    *)
(***************************************************************************)
MaxFiles == 1       \* longest src_files list drawn for a document
MaxLen   == 3       \* longest list handed to parse_list on its own
MaxAlts  == 2       \* most alternatives of a parse_one_of under test
MaxSolutions == 40  \* most solution directories of a project
MaxChain == 3       \* most subcommands chained after `build`

(***************************************************************************)
(* Raw values: a tagged union over String, Integer, Sequence, Mapping and  *)
(* Absent (spec.md section 9).  A successful parse yields the same kind of *)
(* value (a Python object).                                                *)
(***************************************************************************)
Str(s)  == [kind |-> "str",  val |-> s]
Int_(n) == [kind |-> "int",  val |-> n]
Lst(l)  == [kind |-> "list", val |-> l]
Map(m)  == [kind |-> "map",  val |-> m]
Absent  == [kind |-> "absent", val |-> "absent"]

\* value[name], or the absent sentinel when the key is not in the mapping
Lookup(m, name) == IF name \in DOMAIN m THEN m[name] ELSE Absent

\* Field Path segments: a key of a mapping or an index of a list
Key(name) == [kind |-> "key", val |-> name]
Idx(i)    == [kind |-> "idx", val |-> i]

(***************************************************************************)
(* Parsers as data (spec.md section 3: Primitive, Combinator, Default).    *)
(***************************************************************************)
String      == [kind |-> "parse_string",  arg |-> "none"]
Int_p       == [kind |-> "parse_int",     arg |-> "none"]
List(p)     == [kind |-> "parse_list",    arg |-> p]
Choice(ls)  == [kind |-> "parse_choice",  arg |-> ls]
Default(c)  == [kind |-> "parse_default", arg |-> c]
OneOf(ps)   == [kind |-> "parse_one_of",  arg |-> ps]
Dict(fs)    == [kind |-> "parse_dict",    arg |-> fs]
AndMap(p,f) == [kind |-> "parse_and_map", arg |-> <<p, f>>]
Field(n, p) == [name |-> n, parser |-> p]

(***************************************************************************)
(* Results.  A result is either a typed value or an Error holding a Field  *)
(* Path and a message class; `log` lists every parser invocation made to   *)
(* produce it, in order (used to state what was and was not evaluated).    *)
(***************************************************************************)
Ok(v, log)          == [res |-> "ok",  val |-> v, log |-> log]
Err(path, et, log)  == [res |-> "err", val |-> [path |-> path, etype |-> et], log |-> log]
Step(p, path)       == [at |-> path, p |-> p.kind]
IsOk(r)             == r.res = "ok"
IsErr(r)            == r.res = "err"

\* the error a primitive reports for a value of the wrong shape
Mismatch(value) == IF value = Absent THEN "MissingRequiredField" ELSE "TypeMismatch"

\* transforms usable with parse_and_map
Transform(f, v) ==
    CASE f = "join_dir"  -> Str(v.val \o "/")
      [] f = "negate"    -> Int_(0 - v.val)
      [] OTHER           -> v

RECURSIVE Parse(_, _, _)
RECURSIVE one_of_from(_, _, _, _, _)
RECURSIVE dict_from(_, _, _, _, _, _)
RECURSIVE list_from(_, _, _, _, _, _)

parse_string(p, path, value) ==
    IF value.kind = "str" THEN Ok(value, <<Step(p, path)>>)
    ELSE Err(path, Mismatch(value), <<Step(p, path)>>)

parse_int(p, path, value) ==
    IF value.kind = "int" THEN Ok(value, <<Step(p, path)>>)
    ELSE Err(path, Mismatch(value), <<Step(p, path)>>)

parse_choice(p, path, value) ==
    IF value.kind = "str" /\ value.val \in p.arg THEN Ok(value, <<Step(p, path)>>)
    ELSE Err(path, IF value = Absent THEN "MissingRequiredField" ELSE "ChoiceViolation",
             <<Step(p, path)>>)

parse_default(p, path, value) == Ok(p.arg, <<Step(p, path)>>)

\* try alternative i; on failure go on to i+1, the last failure is the result
one_of_from(alts, i, path, value, log) ==
    LET r == Parse(alts[i], path, value) IN
    IF IsOk(r) THEN Ok(r.val, log \o r.log)
    ELSE IF i < Len(alts) THEN one_of_from(alts, i + 1, path, value, log \o r.log)
    ELSE Err(r.val.path, r.val.etype, log \o r.log)

\* a parse_one_of that keeps the error of its first alternative
parse_one_of_first_error(p, path, value) ==
    LET r == one_of_from(p.arg, 1, path, value, <<Step(p, path)>>)
        f == Parse(p.arg[1], path, value)
    IN IF IsErr(r) THEN Err(f.val.path, f.val.etype, r.log) ELSE r

parse_one_of(p, path, value) == one_of_from(p.arg, 1, path, value, <<Step(p, path)>>)

\* fields i.. of the schema, in declaration order; acc holds the fields parsed so far
dict_from(fields, i, path, m, acc, log) ==
    IF i > Len(fields) THEN Ok(Map(acc), log)
    ELSE LET f == fields[i]
             r == Parse(f.parser, Append(path, Key(f.name)), Lookup(m, f.name))
         IN IF IsErr(r) THEN Err(r.val.path, r.val.etype, log \o r.log)
            ELSE dict_from(fields, i + 1, path, m,
                           [k \in DOMAIN acc \cup {f.name} |->
                               IF k = f.name THEN r.val ELSE acc[k]],
                           log \o r.log)

\* a parse_dict that walks its fields in reverse declaration order
Reverse(q) == [i \in 1..Len(q) |-> q[Len(q) + 1 - i]]
parse_dict_reversed(p, path, value) ==
    IF value.kind = "map"
    THEN dict_from(Reverse(p.arg), 1, path, value.val, <<>>, <<Step(p, path)>>)
    ELSE Err(path, Mismatch(value), <<Step(p, path)>>)

parse_dict(p, path, value) ==
    IF value.kind = "map"
    THEN dict_from(p.arg, 1, path, value.val, <<>>, <<Step(p, path)>>)
    ELSE Err(path, Mismatch(value), <<Step(p, path)>>)

\* elements i.. of the list, in index order (indices count from 0)
list_from(elem, i, path, l, acc, log) ==
    IF i > Len(l) THEN Ok(Lst(acc), log)
    ELSE LET r == Parse(elem, Append(path, Idx(i - 1)), l[i])
         IN IF IsErr(r) THEN Err(r.val.path, r.val.etype, log \o r.log)
            ELSE list_from(elem, i + 1, path, l, Append(acc, r.val), log \o r.log)

parse_list(p, path, value) ==
    IF value.kind = "list"
    THEN list_from(p.arg, 1, path, value.val, <<>>, <<Step(p, path)>>)
    ELSE Err(path, Mismatch(value), <<Step(p, path)>>)

parse_and_map(p, path, value) ==
    LET r == Parse(p.arg[1], path, value) IN
    IF IsOk(r) THEN Ok(Transform(p.arg[2], r.val), <<Step(p, path)>> \o r.log)
    ELSE Err(r.val.path, r.val.etype, <<Step(p, path)>> \o r.log)

\* parse(path, value) of the parser p
Parse(p, path, value) ==
    CASE p.kind = "parse_string"  -> parse_string(p, path, value)
      [] p.kind = "parse_int"     -> parse_int(p, path, value)
      [] p.kind = "parse_choice"  -> parse_choice(p, path, value)
      [] p.kind = "parse_default" -> parse_default(p, path, value)
      [] p.kind = "parse_one_of"  -> parse_one_of(p, path, value)
      [] p.kind = "parse_dict"    -> parse_dict(p, path, value)
      [] p.kind = "parse_list"    -> parse_list(p, path, value)
      [] p.kind = "parse_and_map" -> parse_and_map(p, path, value)

(***************************************************************************)
(* The schema of the tool's configuration (helper_funcs.config_parser).    *)
(***************************************************************************)
\* os.path.relpath(".", ".."): the last segment of the working directory,
\* "." in the root directory
relpath(dir) == IF dir = <<>> THEN "." ELSE dir[Len(dir)]

default_proj_name(dir) == Default(Str("proj_" \o relpath(dir)))

\* a schema that maps src_dir_name through a transform on the way in
config_parser_joined(dir) ==
    Dict(<<
        Field("project_name",            OneOf(<<String, default_proj_name(dir)>>)),
        Field("top_level_function_name", String),
        Field("src_dir_name",            OneOf(<<AndMap(String, "join_dir"), Default(Str("src/"))>>)),
        Field("tb_dir_name",             OneOf(<<String, Default(Str("tb/"))>>)),
        Field("src_files",               OneOf(<<List(String), Default(Lst(<<>>))>>)),
        Field("tb_files",                OneOf(<<List(String), Default(Lst(<<>>))>>)),
        Field("compiler",                OneOf(<<Choice({"gcc", "clang"}), Default(Str("gcc"))>>)),
        Field("part_name",               String),
        Field("clock_period",            Int_p),
        Field("language",                OneOf(<<Choice({"vhdl", "verilog"}), Default(Str("vhdl"))>>))
    >>)

config_parser(dir) ==
    Dict(<<
        Field("project_name",            OneOf(<<String, default_proj_name(dir)>>)),
        Field("top_level_function_name", String),
        Field("src_dir_name",            OneOf(<<String, Default(Str("src/"))>>)),
        Field("tb_dir_name",             OneOf(<<String, Default(Str("tb/"))>>)),
        Field("src_files",               OneOf(<<List(String), Default(Lst(<<>>))>>)),
        Field("tb_files",                OneOf(<<List(String), Default(Lst(<<>>))>>)),
        Field("compiler",                OneOf(<<Choice({"gcc", "clang"}), Default(Str("gcc"))>>)),
        Field("part_name",               String),
        Field("clock_period",            Int_p),
        Field("language",                OneOf(<<Choice({"vhdl", "verilog"}), Default(Str("vhdl"))>>))
    >>)

SchemaFields == config_parser(<<>>).arg
FieldNames   == {SchemaFields[i].name : i \in 1..Len(SchemaFields)}
\* a field is mandatory unless wrapped in parse_one_of(..., parse_default(...))
IsOptional(p) == p.kind = "parse_one_of" /\ p.arg[Len(p.arg)].kind = "parse_default"
Mandatory    == {SchemaFields[i].name : i \in {j \in 1..Len(SchemaFields) : ~IsOptional(SchemaFields[j].parser)}}
FieldIndex(n) == CHOOSE i \in 1..Len(SchemaFields) : SchemaFields[i].name = n

\* the parts of the state a scenario does not use
IdleConfig ==
    doc = Absent /\ cwd = <<>> /\ result = Absent /\ first = Absent
IdleComb ==
    cparser = String /\ cvalue = Absent /\ cpath = <<>> /\ cresult = Absent
IdleSolution ==
    nsol = 0 /\ keep = "missing" /\ solution_num = 0
NoEndBuild == [entered |-> FALSE, copied |-> FALSE, reports |-> <<>>]
IdleBuild ==
    /\ src_files = 0 /\ tb_files = 0 /\ report = FALSE /\ syn_result = FALSE
    /\ syn_command_present = FALSE /\ script = <<>> /\ sub_command_returns = <<>>
    /\ checks = <<>> /\ outcome = "none" /\ handed = <<>> /\ returncode = 0
    /\ end_build = NoEndBuild /\ confirmed_all = TRUE

(***************************************************************************)
(* The driver (helper_funcs.load_config).                                  *)
(***************************************************************************)
\* the names bound at module level in helper_funcs.py: its imports and defs
ModuleGlobals ==
    {"os", "yaml", "glob", "Error",
     "parse_and_map", "parse_choice", "parse_default", "parse_dict",
     "parse_int", "parse_list", "parse_one_of", "parse_string",
     "load_config", "config_parser", "find_solution_num"}

\* looking up an unbound global name raises NameError
NameError(name) == [res |-> "NameError", val |-> [name |-> name], log |-> <<>>]

\* load_config(file): "ok" is a returned Configuration, anything else is raised
load_config(file_name, file_doc, dir) ==
    IF "read_config_file" \notin ModuleGlobals THEN NameError("read_config_file")
    ELSE IF "get_config_parser" \notin ModuleGlobals THEN NameError("get_config_parser")
    ELSE LET parsed == Parse(config_parser(dir), <<Key(file_name)>>, file_doc)
         IN parsed

(***************************************************************************)
(* Documents and working directories the configuration scenario draws.     *)
(***************************************************************************)
\* lists of at most n elements of S
SeqsUpTo(S, n) == UNION {[1..k -> S] : k \in 0..n}

FileLists == {Lst(l) : l \in SeqsUpTo({Str("a.c"), Int_(3)}, MaxFiles)}

DocChoices ==
    [project_name            : {Absent, Str("myproj"), Int_(7)},
     top_level_function_name : {Absent, Str("top"), Int_(1)},
     src_dir_name            : {Absent, Str("source")},
     tb_dir_name             : {Absent, Int_(0)},
     src_files               : {Absent} \cup FileLists,
     tb_files                : {Absent, Lst(<<Str("t.c")>>)},
     compiler                : {Absent, Str("clang"), Str("icc")},
     part_name               : {Absent, Str("xc7z020")},
     clock_period            : {Absent, Int_(10), Str("10")},
     language                : {Absent, Str("verilog"), Str("VHDL")}]

\* the mapping holding the chosen keys; a key chosen Absent is left out
ToDoc(r) == Map([k \in {n \in DOMAIN r : r[n] # Absent} |-> r[k]])

\* documents that are no mapping: an empty file, a scalar, a list
OddDocs == {Absent, Str("oops"), Lst(<<>>)}

Docs == {ToDoc(r) : r \in DocChoices} \cup OddDocs
Cwds == {<<"home", "foo">>, <<>>}
FileName == "config.yaml"

\* the Configuration as a document with every field explicit
Serialize(c) == Map([k \in FieldNames |-> c.val[k]])

InitConfig ==
    /\ pc = "start"
    /\ doc \in Docs
    /\ cwd \in Cwds
    /\ result = Absent
    /\ first = Absent
    /\ IdleComb /\ IdleSolution /\ IdleBuild

\* the driver is run on the document
LoadConfig ==
    /\ pc = "start"
    /\ result' = load_config(FileName, doc, cwd)
    /\ pc' = "loaded"
    /\ UNCHANGED <<doc, cwd, first>>
    /\ UNCHANGED <<combvars, solvars, buildvars>>

\* the schema is applied to the document at the empty path
ParseSchema ==
    /\ pc \in {"start", "reencoded"}
    /\ result' = Parse(config_parser(cwd), <<>>, doc)
    /\ pc' = IF pc = "start" THEN "parsed" ELSE "reparsed"
    /\ UNCHANGED <<doc, cwd, first>>
    /\ UNCHANGED <<combvars, solvars, buildvars>>

\* a Configuration is written back as a document with all fields explicit
ReEncode ==
    /\ pc = "parsed"
    /\ IsOk(result)
    /\ first' = result.val
    /\ doc' = Serialize(result.val)
    /\ pc' = "reencoded"
    /\ UNCHANGED <<cwd, result>>
    /\ UNCHANGED <<combvars, solvars, buildvars>>

NextConfig == LoadConfig \/ ParseSchema \/ ReEncode
SpecConfig == InitConfig /\ [][NextConfig]_vars

(***************************************************************************)
(* Properties of the configuration schema and its driver.                  *)
(***************************************************************************)
\* the value of field i is accepted as it stands (absent: only if optional)
FieldValid(d, i) ==
    LET f == SchemaFields[i]
        v == Lookup(d.val, f.name)
    IN IF IsOptional(f.parser)
       THEN v = Absent \/ IsOk(Parse(f.parser.arg[1], <<>>, v))
       ELSE IsOk(Parse(f.parser, <<>>, v))
ValidDoc(d)   == d.kind = "map" /\ \A i \in 1..Len(SchemaFields) : FieldValid(d, i)

\* the name of the working directory
DirName(dir)  == IF dir = <<>> THEN "" ELSE dir[Len(dir)]
\* the defaults the specification lists for the optional fields
ClaimedDefault(n, dir) ==
    CASE n = "project_name" -> Str("proj_" \o DirName(dir))
      [] n = "src_dir_name" -> Str("src/")
      [] n = "tb_dir_name"  -> Str("tb/")
      [] n = "src_files"    -> Lst(<<>>)
      [] n = "tb_files"     -> Lst(<<>>)
      [] n = "compiler"     -> Str("gcc")
      [] n = "language"     -> Str("vhdl")
      [] OTHER              -> Absent
\* r is a Configuration: a record with every schema field populated
IsConfiguration(r) ==
    /\ r.res = "ok"
    /\ r.val.kind = "map"
    /\ DOMAIN r.val.val = FieldNames
    /\ \A n \in FieldNames : r.val.val[n] # Absent
\* r is an Error: a field path and a message
IsFieldError(r) == r.res = "err" /\ DOMAIN r.val = {"path", "etype"}

CompilerPresentInvalid(d) ==
    /\ d.kind = "map"
    /\ "compiler" \in DOMAIN d.val
    /\ d.val["compiler"] \notin {Str("gcc"), Str("clang")}

\* C1: a document whose `compiler` is present but neither "gcc" nor "clang"
\* is rejected by the schema (with a ChoiceViolation at [compiler] when the
\* fields before it are valid) and never parses to compiler = "gcc".
C1_InvalidCompilerRejected ==
    (pc = "parsed" /\ CompilerPresentInvalid(doc)) =>
        /\ IsErr(result)
        /\ (\A i \in 1..(FieldIndex("compiler") - 1) : FieldValid(doc, i)) =>
               /\ result.val.etype = "ChoiceViolation"
               /\ result.val.path = <<Key("compiler")>>

\* what the schema does instead: the default replaces the rejected value
C1_InvalidCompilerDefaulted ==
    (pc = "parsed" /\ CompilerPresentInvalid(doc) /\ IsOk(result)) =>
        result.val.val["compiler"] = Str("gcc")

\* field n is missing and every field declared before it is valid
MissingAt(d, n) ==
    /\ d.kind = "map"
    /\ n \notin DOMAIN d.val
    /\ \A i \in 1..(FieldIndex(n) - 1) : FieldValid(d, i)

\* C2: load_config on a document lacking a mandatory field, the fields
\* declared before it valid, fails with an Error whose path is [<field>].
C2_MissingMandatoryPath ==
    \A n \in Mandatory :
        (pc = "loaded" /\ MissingAt(doc, n)) =>
            (IsFieldError(result) /\ result.val.path = <<Key(n)>>)

\* the same statement about the schema applied at the empty path
SchemaMissingMandatoryPath ==
    \A n \in Mandatory :
        (pc = "parsed" /\ MissingAt(doc, n)) =>
            (IsFieldError(result) /\ result.val.path = <<Key(n)>>
                /\ result.val.etype = "MissingRequiredField")

VerbatimOrDefault(r, d, dir) ==
    \A n \in FieldNames :
        r.val.val[n] = IF n \in DOMAIN d.val THEN d.val[n] ELSE ClaimedDefault(n, dir)

\* C3: load_config on a valid document returns a Configuration holding each
\* present field verbatim and each absent optional field's default.
C3_ValidDocumentLoads ==
    (pc = "loaded" /\ ValidDoc(doc)) =>
        (IsConfiguration(result) /\ VerbatimOrDefault(result, doc, cwd))

\* the same statement about the schema, outside the root directory
SchemaValidDocument ==
    (pc = "parsed" /\ ValidDoc(doc) /\ cwd # <<>>) =>
        (IsConfiguration(result) /\ VerbatimOrDefault(result, doc, cwd))

\* C4: one load_config produces exactly one of a fully populated
\* Configuration and an Error carrying a field path and a message.
C4_ConfigurationOrError ==
    (pc = "loaded") => (IsConfiguration(result) \/ IsFieldError(result))

\* the same statement about the schema
SchemaConfigurationOrError ==
    (pc = "parsed") => (IsConfiguration(result) \/ IsFieldError(result))

\* C7: a Configuration re-encoded as a document with all fields explicit
\* parses again, to a Configuration equal to it in every field.
C7_ReparseIdentical ==
    (pc = "reparsed") => (IsConfiguration(result) /\ result.val = first)

C7_Witness ==
    /\ pc = "reparsed"
    /\ IsOk(result)
    /\ result.val.val["project_name"] = Str("proj_foo")
    /\ result.val.val["src_dir_name"] = Str("source")
    /\ result.val.val["compiler"] = Str("gcc")

(***************************************************************************)
(* The combinators on their own: a parser, a path and a raw value are      *)
(* drawn and the parser is applied.                                        *)
(***************************************************************************)
Primitives == {String, Int_p, Choice({"x", "y"}), Default(Str("d")), List(String)}
Alternations == {OneOf(ps) : ps \in UNION {[1..k -> Primitives] : k \in 1..MaxAlts}}

FieldParsers == {Int_p, String, OneOf(<<String, Default(Str("x"))>>), List(String)}
Schemas == {Dict(<<Field("a", pa), Field("b", pb)>>) : pa \in FieldParsers, pb \in FieldParsers}
\* the schema {a: parse_int, b: parse_one_of(parse_string, parse_default("x"))}
ExampleSchema == Dict(<<Field("a", Int_p), Field("b", OneOf(<<String, Default(Str("x"))>>))>>)

ListParsers == {List(String), List(Int_p), List(OneOf(<<Int_p, String>>)),
                AndMap(String, "join_dir"), List(AndMap(Int_p, "negate"))}

Scalars == {Absent, Str("a"), Str("x"), Int_(5)}
Lists   == {Lst(l) : l \in SeqsUpTo({Str("a"), Str("b"), Int_(3)}, MaxLen)}
MapVals == {Absent, Str("nope"), Int_(5), Lst(<<Str("a"), Int_(3)>>)}
Maps    == {ToDoc(r) : r \in [a : MapVals, b : MapVals]}

InitComb ==
    /\ pc = "cstart"
    /\ \/ cparser \in Alternations /\ cvalue \in Scalars \cup Lists
       \/ cparser \in Schemas      /\ cvalue \in Maps \cup Scalars
       \/ cparser \in ListParsers  /\ cvalue \in Lists \cup Scalars
    /\ cpath \in {<<>>, <<Key("cfg")>>}
    /\ cresult = Absent
    /\ IdleConfig /\ IdleSolution /\ IdleBuild

\* parser(path, value)
ApplyParser ==
    /\ pc = "cstart"
    /\ cresult' = Parse(cparser, cpath, cvalue)
    /\ pc' = "applied"
    /\ UNCHANGED <<cparser, cvalue, cpath>>
    /\ UNCHANGED <<cfgvars, solvars, buildvars>>

NextComb == ApplyParser
SpecComb == InitComb /\ [][NextComb]_vars

\* the logs of the results rs[1..k], one after the other
RECURSIVE LogsUpTo(_, _)
LogsUpTo(rs, k) == IF k = 0 THEN <<>> ELSE LogsUpTo(rs, k - 1) \o rs[k].log

\* each alternative of the parse_one_of under test, applied on its own
AltResults == [i \in 1..Len(cparser.arg) |-> Parse(cparser.arg[i], cpath, cvalue)]
OwnStep    == <<Step(cparser, cpath)>>

\* C5: parse_one_of returns the result of the first alternative that
\* succeeds and tries no later one; when all fail it returns the error of
\* the last alternative.
C5_FirstSuccessLastError ==
    (pc = "applied" /\ cparser.kind = "parse_one_of") =>
        LET rs == AltResults
            ok == {i \in DOMAIN rs : IsOk(rs[i])}
            n  == Len(rs)
        IN IF ok # {}
           THEN LET k == CHOOSE i \in ok : \A j \in ok : i <= j
                IN /\ IsOk(cresult)
                   /\ cresult.val = rs[k].val
                   /\ cresult.log = OwnStep \o LogsUpTo(rs, k)
           ELSE /\ IsErr(cresult)
                /\ cresult.val = rs[n].val
                /\ cresult.log = OwnStep \o LogsUpTo(rs, n)

\* every alternative fails, and the first and the last error differ
C5_Witness ==
    /\ pc = "applied"
    /\ cparser.kind = "parse_one_of"
    /\ Len(cparser.arg) = 2
    /\ \A i \in 1..2 : IsErr(AltResults[i])
    /\ AltResults[1].val # AltResults[2].val
    /\ cresult.val = AltResults[2].val

\* each field of the parse_dict under test, applied on its own
FieldResults ==
    [i \in 1..Len(cparser.arg) |->
        Parse(cparser.arg[i].parser, Append(cpath, Key(cparser.arg[i].name)),
              Lookup(cvalue.val, cparser.arg[i].name))]
\* each element of the list under test, applied on its own
ElemResults ==
    [i \in 1..Len(cvalue.val) |->
        Parse(cparser.arg, Append(cpath, Idx(i - 1)), cvalue.val[i])]

\* the result is that of the first failure among rs, nothing after it having
\* been evaluated, or the success assembled from all of rs
FailFast(rs, whole) ==
    LET bad == {i \in DOMAIN rs : IsErr(rs[i])}
    IN IF bad # {}
       THEN LET k == CHOOSE i \in bad : \A j \in bad : i <= j
            IN /\ IsErr(cresult)
               /\ cresult.val = rs[k].val
               /\ cresult.log = OwnStep \o LogsUpTo(rs, k)
       ELSE /\ IsOk(cresult)
            /\ cresult.val = whole
            /\ cresult.log = OwnStep \o LogsUpTo(rs, Len(rs))

IsPrefix(s, t) == Len(s) <= Len(t) /\ \A i \in 1..Len(s) : s[i] = t[i]
Evaluated(path) == \E i \in 1..Len(cresult.log) : IsPrefix(path, cresult.log[i].at)

\* C6: parse_dict evaluates its fields in declaration order and parse_list
\* its elements in index order; the first failure is the result, its path
\* starting with path + [name] or path + [index]; nothing after it is
\* evaluated and no partial record or list is returned.
C6_FailFastInOrder ==
    (pc = "applied") =>
        /\ (cparser.kind = "parse_dict" /\ cvalue.kind = "map") =>
              /\ FailFast(FieldResults,
                          Map([n \in {"a", "b"} |->
                                 FieldResults[IF n = "a" THEN 1 ELSE 2].val]))
              /\ IsErr(cresult) =>
                    \E i \in 1..Len(cparser.arg) :
                        IsPrefix(Append(cpath, Key(cparser.arg[i].name)), cresult.val.path)
        /\ (cparser.kind = "parse_list" /\ cvalue.kind = "list") =>
              /\ FailFast(ElemResults,
                          Lst([i \in 1..Len(cvalue.val) |-> ElemResults[i].val]))
              /\ IsErr(cresult) =>
                    \E i \in 1..Len(cvalue.val) :
                        IsPrefix(Append(cpath, Idx(i - 1)), cresult.val.path)
        /\ (cparser = ExampleSchema /\ cvalue = Map([a |-> Str("nope")])) =>
              /\ IsErr(cresult)
              /\ cresult.val = [path |-> Append(cpath, Key("a")), etype |-> "TypeMismatch"]
              /\ ~Evaluated(Append(cpath, Key("b")))
        /\ (cparser = ExampleSchema /\ cvalue = Map([a |-> Int_(5)])) =>
              /\ IsOk(cresult)
              /\ cresult.val = Map([a |-> Int_(5), b |-> Str("x")])
        /\ (cparser = List(String) /\ cvalue = Lst(<<Str("a"), Str("b"), Int_(3)>>)) =>
              /\ IsErr(cresult)
              /\ cresult.val.path = Append(cpath, Idx(2))

\* both fields of a schema are wrong and the error is that of the first
C6_Witness ==
    /\ pc = "applied"
    /\ cparser = ExampleSchema
    /\ cvalue = Map([a |-> Str("nope"), b |-> Int_(5)])
    /\ cresult.val.path = Append(cpath, Key("a"))

(***************************************************************************)
(* Solution numbering (helper_funcs.find_solution_num).                    *)
(***************************************************************************)
\* n: the number of paths glob finds; k: ctx.params["keep"], "missing" when
\* the lookup raises KeyError
\* a find_solution_num without the rule that the first solution is 1
find_solution_num_no_first(n, k) ==
    IF k = "missing" THEN n ELSE IF k = "set" THEN n + 1 ELSE n

find_solution_num(n, k) ==
    IF n = 0 THEN 1
    ELSE IF k = "missing" THEN n
    ELSE IF k = "set" THEN n + 1
    ELSE n

KeepValues == {"missing", "unset", "set"}

InitSolution ==
    /\ pc = "sstart"
    /\ nsol \in 0..MaxSolutions
    /\ keep \in KeepValues
    /\ solution_num = 0
    /\ IdleConfig /\ IdleComb /\ IdleBuild

FindSolutionNum ==
    /\ pc = "sstart"
    /\ solution_num' = find_solution_num(nsol, keep)
    /\ pc' = "numbered"
    /\ UNCHANGED <<nsol, keep>>
    /\ UNCHANGED <<cfgvars, combvars, buildvars>>

NextSolution == FindSolutionNum
SpecSolution == InitSolution /\ [][NextSolution]_vars

\* C8: find_solution_num returns 1 for a project without solutions, n + 1
\* for n > 0 solutions when keep is set, n when keep is unset or missing;
\* the result is at least 1.
C8_SolutionNumber ==
    (pc = "numbered") =>
        /\ (nsol = 0) => solution_num = 1
        /\ (nsol > 0 /\ keep = "set") => solution_num = nsol + 1
        /\ (nsol > 0 /\ keep \in {"unset", "missing"}) => solution_num = nsol
        /\ solution_num >= 1

C8_Witness ==
    pc = "numbered" /\ nsol = 2 /\ keep = "set" /\ solution_num = 3

(***************************************************************************)
(* The chained build subcommands (build_commands.py).  A script entry is   *)
(* the Tcl helper called and the argument that selects its output.         *)
(***************************************************************************)
Cmd(c, a) == [cmd |-> c, arg |-> a]

\* add_files(files, ...): the entries one call contributes
add_files(n, is_tb) == [i \in 1..n |-> Cmd("add_files", IF is_tb THEN "tb" ELSE "src")]

do_start_build_stuff ==
    (<<Cmd("open_project", ""), Cmd("set_top", "")>>
        \o add_files(src_files, FALSE) \o add_files(tb_files, TRUE))
    \o <<Cmd("open_solution", ""), Cmd("set_part", ""), Cmd("create_clock", "")>>

do_default_build ==
    <<Cmd("csim_design", ""), Cmd("csynth_design", ""), Cmd("cosim_design", ""),
      Cmd("export_design", "ip_catalog"), Cmd("export_design", "sysgen")>>

do_csim_stuff == <<Cmd("csim_design", "")>>
do_syn_stuff  == <<Cmd("csynth_design", "")>>
do_cosim_stuff(debug) == <<Cmd("cosim_design", IF debug THEN "all" ELSE "")>>
do_export_stuff(type, evaluate) ==
    (IF "ip" \in type THEN <<Cmd("export_design", "ip")>> ELSE <<>>)
    \o (IF "sysgen" \in type THEN <<Cmd("export_design", "sysgen")>> ELSE <<>>)

\* syn_lookahead_check asks whether to add C synthesis
\* a check that asks unless a syn subcommand ran and a report exists
lookahead_asks_unless_both(present, found) == ~(present /\ found)

lookahead_asks(present, found) == ~(present \/ found)

\* the entries syn_lookahead_check adds, given the answer to its question
syn_lookahead_check(present, found, answer) ==
    IF lookahead_asks(present, found) /\ answer
    THEN <<Cmd("csynth_design", "")>>
    ELSE <<>>

\* what build_end_callback does with the return code of the HLS process
\* a callback that does not look for a negative return code
hls_status_no_negative(rc, rep) ==
    IF rc > 0 /\ rep THEN "Abort" ELSE "end_build"

hls_status(rc, rep) ==
    IF rc < 0 THEN "Abort"
    ELSE IF rc > 0 /\ rep THEN "Abort"
    ELSE "end_build"

\* the parameters of the `build` group, in whose context the result callback runs
BuildParams == {"report"}

\* do_end_build_stuff: ctx.params['keep'] is read before anything is copied
do_end_build_stuff(params, returns, rep) ==
    IF "keep" \notin params
    THEN [entered |-> TRUE, copied |-> FALSE, reports |-> <<>>]
    ELSE [entered |-> TRUE, copied |-> TRUE,
          reports |-> IF rep
                      THEN (IF returns = <<>> THEN <<"csim", "syn", "cosim", "export">>
                            ELSE returns)
                      ELSE <<>>]

ReturnCodes == {-1, 0, 1}
ExportTypes == {{"ip"}, {"sysgen"}, {"ip", "sysgen"}}

InitBuild ==
    /\ pc = "bstart"
    /\ src_files \in 0..MaxFiles
    /\ tb_files \in 0..MaxFiles
    /\ report \in BOOLEAN
    /\ syn_result \in BOOLEAN
    /\ syn_command_present = FALSE
    /\ script = <<>>
    /\ sub_command_returns = <<>>
    /\ checks = <<>>
    /\ outcome = "none"
    /\ handed = <<>>
    /\ returncode = 0
    /\ end_build = NoEndBuild
    /\ confirmed_all = TRUE
    /\ IdleConfig /\ IdleComb /\ IdleSolution

\* the group callback: runs before any subcommand
build ==
    /\ pc = "bstart"
    /\ script' = script \o do_start_build_stuff
    /\ pc' = "chain"
    /\ UNCHANGED <<src_files, tb_files, report, syn_result, syn_command_present,
                   sub_command_returns, checks, outcome, handed, returncode,
                   end_build, confirmed_all>>
    /\ UNCHANGED <<cfgvars, combvars, solvars>>

CanChain == pc = "chain" /\ Len(sub_command_returns) < MaxChain

csim ==
    /\ CanChain
    /\ script' = script \o do_csim_stuff
    /\ sub_command_returns' = Append(sub_command_returns, "csim")
    /\ UNCHANGED <<pc, src_files, tb_files, report, syn_result, syn_command_present,
                   checks, outcome, handed, returncode, end_build, confirmed_all>>
    /\ UNCHANGED <<cfgvars, combvars, solvars>>

syn ==
    /\ CanChain
    /\ script' = script \o do_syn_stuff
    /\ syn_command_present' = TRUE
    /\ sub_command_returns' = Append(sub_command_returns, "syn")
    /\ UNCHANGED <<pc, src_files, tb_files, report, syn_result,
                   checks, outcome, handed, returncode, end_build, confirmed_all>>
    /\ UNCHANGED <<cfgvars, combvars, solvars>>

\* the record a syn_lookahead_check leaves: the subcommand, its place in the
\* chain, whether it asked and what it added
Check(name, added, after) ==
    [cmd |-> name, idx |-> Len(sub_command_returns) + 1,
     asked |-> lookahead_asks(syn_command_present, syn_result),
     added |-> Len(added), from |-> Len(script), to |-> Len(after)]

cosim ==
    /\ CanChain
    /\ \E debug \in BOOLEAN, answer \in BOOLEAN :
         LET added == syn_lookahead_check(syn_command_present, syn_result, answer)
         IN /\ script' = (script \o added) \o do_cosim_stuff(debug)
            /\ checks' = Append(checks, Check("cosim", added, script'))
            /\ confirmed_all' = (confirmed_all /\
                   (lookahead_asks(syn_command_present, syn_result) => answer))
    /\ sub_command_returns' = Append(sub_command_returns, "cosim")
    /\ UNCHANGED <<pc, src_files, tb_files, report, syn_result, syn_command_present,
                   outcome, handed, returncode, end_build>>
    /\ UNCHANGED <<cfgvars, combvars, solvars>>

export ==
    /\ CanChain
    /\ \E type \in ExportTypes, evaluate \in BOOLEAN, answer \in BOOLEAN :
         LET added == syn_lookahead_check(syn_command_present, syn_result, answer)
         IN /\ script' = (script \o added) \o do_export_stuff(type, evaluate)
            /\ checks' = Append(checks, Check("export", added, script'))
            /\ confirmed_all' = (confirmed_all /\
                   (lookahead_asks(syn_command_present, syn_result) => answer))
    /\ sub_command_returns' = Append(sub_command_returns, "export")
    /\ UNCHANGED <<pc, src_files, tb_files, report, syn_result, syn_command_present,
                   outcome, handed, returncode, end_build>>
    /\ UNCHANGED <<cfgvars, combvars, solvars>>

\* the result callback: runs when all subcommands of the chain have returned
build_end_callback ==
    /\ pc = "chain"
    /\ pc' = "finished"
    /\ \E confirm \in BOOLEAN, write_ok \in BOOLEAN, rc \in ReturnCodes :
         IF sub_command_returns = <<>> /\ ~confirm
         THEN \* click.confirm(..., abort=True) declined
              /\ outcome' = "Abort"
              /\ confirmed_all' = FALSE
              /\ UNCHANGED <<script, handed, returncode, end_build>>
         ELSE LET staged == IF sub_command_returns = <<>>
                            THEN script \o do_default_build ELSE script
                  final  == Append(staged, Cmd("exit", ""))
              IN /\ script' = final
                 /\ UNCHANGED confirmed_all
                 /\ IF ~write_ok
                    THEN \* the script file could not be created
                         /\ outcome' = "Abort"
                         /\ UNCHANGED <<handed, returncode, end_build>>
                    ELSE /\ handed' = final
                         /\ returncode' = rc
                         /\ IF hls_status(rc, report) = "Abort"
                            THEN outcome' = "Abort" /\ UNCHANGED end_build
                            ELSE /\ end_build' = do_end_build_stuff(BuildParams,
                                                     sub_command_returns, report)
                                 /\ outcome' = IF end_build'.copied THEN "done"
                                               ELSE "KeyError"
    /\ UNCHANGED <<src_files, tb_files, report, syn_result, syn_command_present,
                   sub_command_returns, checks>>
    /\ UNCHANGED <<cfgvars, combvars, solvars>>

NextBuild == build \/ csim \/ syn \/ cosim \/ export \/ build_end_callback
SpecBuild == InitBuild /\ [][NextBuild]_vars

(***************************************************************************)
(* Properties of the build chain.                                          *)
(***************************************************************************)
IsCsynth(e)   == e.cmd = "csynth_design"
NeedsSyn(e)   == e.cmd \in {"cosim_design", "export_design"}
SynPreceded(s) ==
    \A i \in 1..Len(s) : NeedsSyn(s[i]) => \E j \in 1..(i - 1) : IsCsynth(s[j])
\* a syn subcommand returned before the subcommand the check c belongs to
SynRanBefore(c) == \E j \in 1..(c.idx - 1) : sub_command_returns[j] = "syn"

\* C9: with every prompt accepted, each cosim_design or export_design of the
\* script is preceded by a csynth_design when no synthesis report exists;
\* and a cosim/export subcommand that follows a syn subcommand, or finds a
\* synthesis report, asks nothing and adds no csynth_design of its own.
C9_SynthesisBeforeUse ==
    confirmed_all =>
        /\ ~syn_result => SynPreceded(script)
        /\ \A k \in 1..Len(checks) :
              (SynRanBefore(checks[k]) \/ syn_result) =>
                  /\ ~checks[k].asked
                  /\ checks[k].added = 0
                  /\ \A j \in (checks[k].from + 1)..checks[k].to : ~IsCsynth(script[j])

\* cosim, syn, cosim without a report: the first cosim asks and adds the
\* synthesis, the second asks nothing
C9_Witness ==
    /\ confirmed_all /\ ~syn_result
    /\ sub_command_returns = <<"cosim", "syn", "cosim">>
    /\ checks[1].asked /\ checks[1].added = 1
    /\ ~checks[2].asked /\ checks[2].added = 0

Started == handed # <<>>
ExitCount(s) == Cardinality({i \in 1..Len(s) : s[i].cmd = "exit"})
StageCount(s) ==
    Cardinality({i \in 1..Len(s) :
        s[i].cmd \in {"csim_design", "csynth_design", "cosim_design", "export_design"}})

\* C10: after vivado_hls has run, reports are opened only for return code 0
\* with the report flag set; a negative return code aborts without running
\* do_end_build_stuff; a positive one with the report flag set aborts with
\* no report opened and no sources copied; the script handed to vivado_hls
\* ends with its only exit command, after all stage commands.
C10_EndOfBuild ==
    (pc = "finished") =>
        /\ (end_build.reports # <<>>) => (Started /\ returncode = 0 /\ report)
        /\ (Started /\ returncode < 0) => (outcome = "Abort" /\ ~end_build.entered)
        /\ (Started /\ returncode > 0 /\ report) =>
              (outcome = "Abort" /\ end_build.reports = <<>> /\ ~end_build.copied)
        /\ Started =>
              /\ handed = script
              /\ handed[Len(handed)].cmd = "exit"
              /\ ExitCount(handed) = 1
              /\ StageCount(handed) >= Len(sub_command_returns)
              /\ (sub_command_returns = <<>>) => StageCount(handed) = Len(do_default_build)

C10_Witness ==
    /\ pc = "finished" /\ Started
    /\ returncode > 0 /\ report
    /\ outcome = "Abort"
    /\ sub_command_returns = <<"csim", "syn">>

\* do_end_build_stuff is entered and stops at ctx.params['keep']
EndBuildStopsAtKeep ==
    (pc = "finished" /\ end_build.entered) => (outcome = "KeyError" /\ ~end_build.copied)

====
